---- MODULE Spec2Model ----
(***************************************************************************)
(* Model of the Bookmarks application (Karac-POZ/Bookmarks): the activity  *)
(* recorder actions.utils.create_action, the Redis-backed view counter and *)
(* ranking of images.views.image_detail / image_ranking, the likes of      *)
(* images.views.image_like with the receiver of images.signals, and the    *)
(* follow graph and dashboard of account.views.                            *)
(***************************************************************************)
EXTENDS Integers, Sequences, FiniteSets, TLC

(***************************************************************************)
(* Bounds of the model.                                                    *)
(***************************************************************************)
\* the clock is read in whole seconds, from 0 up to MaxTime
MaxTime == 61
\* number of create_action calls of one behaviour of SpecRecord
MaxCalls == 3
\* number of requests that run create_action concurrently in SpecRace
NumProcs == 2
\* number of images in the Image table of SpecViews and SpecViewsRace
NumImages == 3
\* number of image_detail requests that increment of one behaviour of SpecViews
MaxViews == 4
\* number of image_detail requests that increment of one behaviour of SpecRanking
MaxRankingViews == 2
\* number of requests that run image_detail concurrently in SpecViewsRace
NumViewers == 3
\* number of requests that run image_detail concurrently in SpecOutage
NumOutageViewers == 2
\* number of Image rows deleted in one behaviour of SpecDeleted
MaxDeleted == 2
\* number of writing requests started in one behaviour of SpecAll
MaxStarted == 2
\* number of requests that run image_like concurrently in SpecLikes
NumLikers == 2

(***************************************************************************)
(* Program constants.                                                      *)
(***************************************************************************)
\* datetime.timedelta(seconds=60), actions/utils.py line 22
Window == 60
\* the slice [:10] of image_ranking, images/views.py line 179
TopN == 10
\* the slice [:10] of dashboard, account/views.py line 69
PageSize == 10

(***************************************************************************)
(* Inputs of create_action.                                                *)
(***************************************************************************)
Users == {1, 2}
Verbs == {"likes", "bookmarked image"}
\* target=None: target_ct and target_id are NULL in the stored row
NoTarget == [ct |-> "null", id |-> 0]
\* a target is a model instance: (content type, primary key)
Targets == {NoTarget, [ct |-> "image", id |-> 1], [ct |-> "image", id |-> 2]}
\* seconds the clock may have advanced between two readings of timezone.now()
Elapsed == {0, 30, 31, 60, 61}

VARIABLES
    now,        \* the last value timezone.now() returned
    actions,    \* the Action table: a sequence of rows, the primary key is the index
    calls,      \* history: the completed create_action calls, in order
    req,        \* per concurrent request: where it is in create_action, its locals
    images,     \* the Image table: the primary keys of its rows
    views,      \* Redis: the integer under the key image:<id>:views (0: no key)
    ranking,    \* Redis: the sorted set image_ranking, member -> score
    returns,    \* history: per image, the total_views image_detail rendered, in order
    rendered,   \* the context of the last rendered response
    vreq,       \* per concurrent request: where it is in image_detail, its locals
    down,       \* history: Redis was unreachable at the last command sent to it
    users_like, \* the images_image_users_like table: image id -> the users who like it
    total_likes,\* the column Image.total_likes: image id -> integer
    rowlock,    \* the database's row lock of each Image row: its holder, 0 when free
    lreq,       \* per concurrent request: where it is in image_like, its locals
    following   \* the Contact table: the pairs <<user_from, user_to>>

recvars == <<now, actions, calls, req>>
viewvars == <<images, views, ranking, returns, rendered, vreq>>
socialvars == <<down, users_like, total_likes, rowlock, lreq, following>>
vars == <<now, actions, calls, req, images, views, ranking, returns, rendered, vreq,
          down, users_like, total_likes, rowlock, lreq, following>>

Procs == 1..NumProcs

(***************************************************************************)
(* actions.models.Action                                                   *)
(***************************************************************************)
Action(user, verb, target, created) ==
    [user |-> user, verb |-> verb,
     target_ct |-> target.ct, target_id |-> target.id,
     created |-> created]

(***************************************************************************)
(* actions.utils.create_action                                             *)
(***************************************************************************)
\* last_minute = now - datetime.timedelta(seconds=60)
LastMinute(t) == t - Window

\* a strict comparison, created__gt, in place of created__gte
CreatedGt(created, last_minute) == created > last_minute

\* created__gte=last_minute
CreatedGte(created, last_minute) == created >= last_minute

\* if target: similar_actions.filter(target_ct=target_ct, target_id=target.id)
TargetFilter(row, target) ==
    IF target # NoTarget
    THEN row.target_ct = target.ct /\ row.target_id = target.id
    ELSE TRUE

\* the query without its created__gte filter
SimilarActionsNoWindow(rows, user, verb, target, t) ==
    {i \in DOMAIN rows :
        /\ rows[i].user = user
        /\ rows[i].verb = verb
        /\ TargetFilter(rows[i], target)}

\* the primary keys of the rows the similar_actions queryset selects
SimilarActions(rows, user, verb, target, t) ==
    {i \in DOMAIN rows :
        /\ rows[i].user = user
        /\ rows[i].verb = verb
        /\ CreatedGte(rows[i].created, LastMinute(t))
        /\ TargetFilter(rows[i], target)}

\* a suppressed call that refreshes the created stamp of the rows it found
SaveOrTouch(rows, similar, row) ==
    IF similar = {}
    THEN Append(rows, row)
    ELSE [i \in DOMAIN rows |->
             IF i \in similar THEN [rows[i] EXCEPT !.created = row.created]
             ELSE rows[i]]

\* if not similar_actions: Action(...).save(); the table after the call
SaveIfNone(rows, similar, row) ==
    IF similar = {} THEN Append(rows, row) ELSE rows

\* return True moved out of the if block
ReturnedAlways(similar) == TRUE

\* the value create_action returns
Returned(similar) == similar = {}

\* timezone.now(): never earlier than the last reading
ClockReadings == {now + d : d \in Elapsed} \cap (0..MaxTime)

\* one whole create_action call, run without overlapping any other call; t is
\* the clock value of the call: line 21 and the auto_now_add of the save
\* (models.py, created) read the same second
CreateAction(user, verb, target, t) ==
    LET similar == SimilarActions(actions, user, verb, target, t)
    IN  /\ Len(calls) < MaxCalls
        /\ now' = t
        /\ actions' = SaveIfNone(actions, similar, Action(user, verb, target, t))
        /\ calls' = Append(calls,
               [user |-> user, verb |-> verb, target |-> target, at |-> t,
                result |-> Returned(similar), before |-> Len(actions)])
        /\ UNCHANGED <<req, viewvars, socialvars>>

\* a request that has not called create_action yet
Idle == [pc |-> "idle"]

\* no Action row, no request in flight
InitActions ==
    /\ now = 0
    /\ actions = <<>>
    /\ calls = <<>>
    /\ req = [p \in Procs |-> Idle]

\* NumImages images, none viewed yet: Redis holds no key
InitImages ==
    /\ images = 1..NumImages
    /\ views = [i \in images |-> 0]
    /\ ranking = <<>>
    /\ returns = [i \in images |-> <<>>]
    /\ rendered = [view |-> "none"]
    /\ vreq = [p \in 1..NumViewers |-> Idle]

\* nobody likes an image, nobody follows anybody, no image_like in flight
InitSocial ==
    /\ down = FALSE
    /\ users_like = [i \in images |-> {}]
    /\ total_likes = [i \in images |-> 0]
    /\ rowlock = [i \in images |-> 0]
    /\ lreq = [p \in 1..NumLikers |-> Idle]
    /\ following = {}

InitRecord == InitActions /\ InitImages /\ InitSocial

NextRecord ==
    \E user \in Users, verb \in Verbs, target \in Targets, t \in ClockReadings :
        CreateAction(user, verb, target, t)

SpecRecord == InitRecord /\ [][NextRecord]_vars

(***************************************************************************)
(* create_action run by concurrent requests: the query (lines 21-34) and   *)
(* the save (lines 36-38) are two steps, and other requests run between.   *)
(***************************************************************************)
\* save that repeats the query against the table as it is at save time
SaveIfStillNone(rows, similar, row) ==
    IF /\ similar = {}
       /\ \A i \in DOMAIN rows :
              ~(/\ rows[i].user = row.user
                /\ rows[i].verb = row.verb
                /\ rows[i].target_ct = row.target_ct
                /\ rows[i].target_id = row.target_id
                /\ CreatedGte(rows[i].created, LastMinute(row.created)))
    THEN Append(rows, row)
    ELSE rows

\* action.save() of a request whose query result was `similar`
SaveAction(rows, similar, row) == SaveIfNone(rows, similar, row)

\* lines 21-34: read the clock, evaluate the similar_actions queryset; a
\* request that found a similar action returns False at once (line 39).
\* Requests are numbered in the order they start.
Query(p, user, verb, target, t) ==
    LET similar == SimilarActions(actions, user, verb, target, t)
    IN  /\ req[p].pc = "idle"
        /\ \A q \in Procs : q < p => req[q].pc # "idle"
        /\ now' = t
        /\ req' = [req EXCEPT ![p] =
               [pc |-> IF similar = {} THEN "save" ELSE "done",
                user |-> user, verb |-> verb, target |-> target, at |-> t,
                similar |-> similar, seen |-> Len(actions),
                result |-> Returned(similar), row |-> 0]]
        /\ UNCHANGED <<actions, calls, viewvars, socialvars>>

\* lines 36-38: action.save(), created set by auto_now_add from the clock
\* read at the save, then return True; row: the primary key of the saved row
Save(p, t) ==
    /\ req[p].pc = "save"
    /\ now' = t
    /\ actions' = SaveAction(actions, req[p].similar,
                      Action(req[p].user, req[p].verb, req[p].target, t))
    /\ req' = [req EXCEPT ![p].pc = "done",
                          ![p].row = IF Len(actions') > Len(actions)
                                     THEN Len(actions') ELSE 0]
    /\ UNCHANGED <<calls, viewvars, socialvars>>

\* the racing requests come from one logged-in actor (request.user)
RaceUsers == {1}

NextRace ==
    \/ \E p \in Procs, user \in RaceUsers, verb \in Verbs, target \in Targets,
          t \in ClockReadings : Query(p, user, verb, target, t)
    \/ \E p \in Procs, t \in ClockReadings : Save(p, t)

SpecRace == InitRecord /\ [][NextRace]_vars

(***************************************************************************)
(* Redis, as images/views.py uses it through redis-py.                     *)
(***************************************************************************)
\* redis-py sends the member image.id as str(image.id): its decimal digits
RECURSIVE Str(_)
Str(n) == IF n < 10 THEN <<n>> ELSE Append(Str(n \div 10), n % 10)

\* int(id) of a member read back from Redis
RECURSIVE ToInt(_)
ToInt(digits) ==
    IF digits = <<>> THEN 0
    ELSE 10 * ToInt(SubSeq(digits, 1, Len(digits) - 1)) + digits[Len(digits)]

\* INCR returning the value before the increment
RedisIncrOld(value) == value

\* INCR key: the new value, which is stored and returned
RedisIncr(value) == value + 1

\* ZADD in place of ZINCRBY: the score is set to delta
ZAddDelta(zset, delta, member) ==
    [m \in DOMAIN zset \cup {member} |-> IF m = member THEN delta ELSE zset[m]]

\* ZINCRBY set delta member: a member not in the set starts from score 0
ZIncrBy(zset, delta, member) ==
    [m \in DOMAIN zset \cup {member} |->
        IF m = member
        THEN (IF m \in DOMAIN zset THEN zset[m] ELSE 0) + delta
        ELSE zset[m]]

\* byte-wise order of two members, as Redis compares members of equal score
LexGreater(a, b) ==
    \E k \in 1..Len(a) :
        /\ \A j \in 1..(k - 1) : j <= Len(b) /\ a[j] = b[j]
        /\ k > Len(b) \/ a[k] > b[k]

\* the order of ZRANGE ... desc=True: higher score first, and among equal
\* scores the byte-wise greater member first
ZBefore(zset, a, b) ==
    \/ zset[a] > zset[b]
    \/ zset[a] = zset[b] /\ LexGreater(a, b)

RECURSIVE ZRevRangeOf(_, _)
ZRevRangeOf(zset, members) ==
    IF members = {} THEN <<>>
    ELSE LET first == CHOOSE m \in members :
                          \A o \in members : o = m \/ ZBefore(zset, m, o)
         IN  <<first>> \o ZRevRangeOf(zset, members \ {first})

\* r.zrange('image_ranking', 0, -1, desc=True)
ZRevRange(zset) == ZRevRangeOf(zset, DOMAIN zset)

(***************************************************************************)
(* images.views.image_detail                                               *)
(***************************************************************************)
RECURSIVE SumLen(_, _)
SumLen(f, S) ==
    IF S = {} THEN 0
    ELSE LET x == CHOOSE x \in S : TRUE
         IN  Len(f[x]) + SumLen(f, S \ {x})

\* the number of image_detail requests that have incremented the counters
ViewCount == SumLen(returns, DOMAIN returns)

\* one whole image_detail request for (id, slug), run without overlapping
\* any other request; found: an Image row has this id and this slug
ImageDetail(id, found) ==
    IF id \in images /\ found
    THEN LET total_views == RedisIncr(views[id])
         IN  /\ ViewCount < MaxViews
             /\ views' = [views EXCEPT ![id] = total_views]
             /\ ranking' = ZIncrBy(ranking, 1, Str(id))
             /\ returns' = [returns EXCEPT ![id] = Append(@, total_views)]
             /\ rendered' = [view |-> "detail", image |-> id,
                             total_views |-> total_views]
             /\ UNCHANGED <<images, vreq, recvars, socialvars>>
    ELSE \* get_object_or_404 raises Http404 before Redis is touched
         /\ rendered' = [view |-> "404"]
         /\ UNCHANGED <<images, views, ranking, returns, vreq, recvars, socialvars>>

(***************************************************************************)
(* images.views.image_ranking                                              *)
(***************************************************************************)
\* seq[:n]
Take(seq, n) == SubSeq(seq, 1, IF Len(seq) < n THEN Len(seq) ELSE n)

\* image_ranking_ids = [int(id) for id in image_ranking]
RankingIds(zset) ==
    LET image_ranking == Take(ZRevRange(zset), TopN)
    IN  [i \in 1..Len(image_ranking) |-> ToInt(image_ranking[i])]

\* image_ranking_ids.index(x)
Index(ids, x) ==
    CHOOSE i \in 1..Len(ids) : ids[i] = x /\ \A j \in 1..(i - 1) : ids[j] # x

RECURSIVE Ascending(_)
Ascending(S) ==
    IF S = {} THEN <<>>
    ELSE LET least == CHOOSE x \in S : \A y \in S : x <= y
         IN  <<least>> \o Ascending(S \ {least})

Reverse(seq) == [i \in 1..Len(seq) |-> seq[Len(seq) + 1 - i]]

Rotate(seq, k) == [i \in 1..Len(seq) |-> seq[((i + k - 1) % Len(seq)) + 1]]

\* the orders the database is taken to return rows in: Meta.ordering is
\* -created, which does not follow the rank
FetchOrders == {"newest first", "oldest first", "rotated", "halved"}

\* list(Image.objects.filter(id__in=ids)): the rows of the table among ids,
\* in the order the database returns them
Fetch(ids, order) ==
    LET wanted == {ids[i] : i \in 1..Len(ids)} \cap images
        asc == Ascending(wanted)
    IN  CASE order = "newest first" -> Reverse(asc)
          [] order = "oldest first" -> asc
          [] order = "rotated" -> Rotate(asc, 1)
          [] order = "halved" -> Rotate(asc, Len(asc) \div 2)

\* list.sort(key=...): a stable sort, here by insertion; key[x] is the
\* sort key of element x
Insert(sorted, x, key) ==
    LET pos == Cardinality({i \in 1..Len(sorted) : key[sorted[i]] <= key[x]})
    IN  SubSeq(sorted, 1, pos) \o <<x>> \o SubSeq(sorted, pos + 1, Len(sorted))

RECURSIVE SortByKey(_, _)
SortByKey(seq, key) ==
    IF seq = <<>> THEN <<>>
    ELSE Insert(SortByKey(SubSeq(seq, 1, Len(seq) - 1), key), seq[Len(seq)], key)

\* the fetched list left in the order the database returned it
FetchOrderKept(fetched, ids) == fetched

\* most_viewed.sort(key=lambda x: image_ranking_ids.index(x.id))
MostViewed(fetched, ids) ==
    LET key == [x \in {fetched[i] : i \in 1..Len(fetched)} |-> Index(ids, x)]
    IN  SortByKey(fetched, key)

\* image_ranking that slices the ranking after leaving out the members
\* whose row is gone
ImageRankingRefilled(order) ==
    LET alive == SelectSeq(ZRevRange(ranking), LAMBDA m : ToInt(m) \in images)
        image_ranking == Take(alive, TopN)
        image_ranking_ids == [i \in 1..Len(image_ranking) |-> ToInt(image_ranking[i])]
        fetched == Fetch(image_ranking_ids, order)
    IN  /\ rendered' = [view |-> "ranking",
                        most_viewed |-> MostViewed(fetched, image_ranking_ids)]
        /\ UNCHANGED <<images, views, ranking, returns, vreq, recvars, socialvars>>

\* one whole image_ranking request; order: how the database orders the rows
ImageRanking(order) ==
    LET image_ranking_ids == RankingIds(ranking)
        fetched == Fetch(image_ranking_ids, order)
    IN  /\ rendered' = [view |-> "ranking",
                        most_viewed |-> MostViewed(fetched, image_ranking_ids)]
        /\ UNCHANGED <<images, views, ranking, returns, vreq, recvars, socialvars>>

NextViews ==
    \/ \E id \in DOMAIN views \cup {0}, found \in BOOLEAN : ImageDetail(id, found)
    \/ \E order \in FetchOrders : ImageRanking(order)

\* NumImages images and an empty Redis
InitViews == InitActions /\ InitImages /\ InitSocial

SpecViews == InitViews /\ [][NextViews]_vars

\* view counts of TopN + 1 images after earlier traffic: rising with the id,
\* falling with the id, all equal, and in three levels
RankedScores ==
    {[i \in 1..(TopN + 1) |-> i],
     [i \in 1..(TopN + 1) |-> TopN + 2 - i],
     [i \in 1..(TopN + 1) |-> 1],
     [i \in 1..(TopN + 1) |-> 1 + (i % 3)]}

\* TopN + 1 images, each already viewed: more members than image_ranking shows
InitRanking ==
    \E score \in RankedScores :
        /\ images = DOMAIN score
        /\ views = score
        /\ ranking = [m \in {Str(i) : i \in DOMAIN score} |-> score[ToInt(m)]]
        /\ returns = [i \in DOMAIN score |-> <<>>]
        /\ rendered = [view |-> "none"]
        /\ vreq = [p \in 1..NumViewers |-> Idle]
        /\ InitActions
        /\ InitSocial

NextRanking ==
    \/ /\ ViewCount < MaxRankingViews
       /\ \E id \in DOMAIN views \cup {0}, found \in BOOLEAN : ImageDetail(id, found)
    \/ \E order \in FetchOrders : ImageRanking(order)

SpecRanking == InitRanking /\ [][NextRanking]_vars

(***************************************************************************)
(* image_detail run by concurrent requests: get_object_or_404, INCR and    *)
(* ZINCRBY are three steps, and other requests run between them.           *)
(***************************************************************************)
Viewers == 1..NumViewers

\* line 71: get_object_or_404(Image, id=id, slug=slug). Requests are
\* numbered in the order they start.
DetailGet(p, id, found) ==
    /\ vreq[p].pc = "idle"
    /\ \A q \in Viewers : q < p => vreq[q].pc # "idle"
    /\ vreq' = [vreq EXCEPT ![p] =
           IF id \in images /\ found
           THEN [pc |-> "incr", image |-> id, total_views |-> 0]
           ELSE [pc |-> "404", image |-> id, total_views |-> 0]]
    /\ UNCHANGED <<images, views, ranking, returns, rendered, recvars, socialvars>>

\* line 73: total_views = r.incr(f'image:{image.id}:views')
DetailIncr(p) ==
    /\ vreq[p].pc = "incr"
    /\ views' = [views EXCEPT ![vreq[p].image] = RedisIncr(@)]
    /\ vreq' = [vreq EXCEPT ![p].pc = "zincrby",
                            ![p].total_views = views'[vreq[p].image]]
    /\ UNCHANGED <<images, ranking, returns, rendered, recvars, socialvars>>

\* the response of a finished image_detail request
DetailRendered(p) ==
    /\ vreq' = [vreq EXCEPT ![p].pc = "done"]
    /\ returns' = [returns EXCEPT ![vreq[p].image] = Append(@, vreq[p].total_views)]
    /\ rendered' = [view |-> "detail", image |-> vreq[p].image,
                    total_views |-> vreq[p].total_views]

\* r.zadd('image_ranking', {image.id: total_views}) in place of ZINCRBY
DetailZadd(p) ==
    /\ vreq[p].pc = "zincrby"
    /\ ranking' = [m \in DOMAIN ranking \cup {Str(vreq[p].image)} |->
                      IF m = Str(vreq[p].image) THEN vreq[p].total_views
                      ELSE ranking[m]]
    /\ DetailRendered(p)
    /\ UNCHANGED <<images, views, recvars, socialvars>>

\* line 75: r.zincrby('image_ranking', 1, image.id), then lines 76-84: render
DetailZincrby(p) ==
    /\ vreq[p].pc = "zincrby"
    /\ ranking' = ZIncrBy(ranking, 1, Str(vreq[p].image))
    /\ DetailRendered(p)
    /\ UNCHANGED <<images, views, recvars, socialvars>>

NextViewsRace ==
    \/ \E p \in Viewers, id \in DOMAIN views \cup {0}, found \in BOOLEAN :
           DetailGet(p, id, found)
    \/ \E p \in Viewers : DetailIncr(p)
    \/ \E p \in Viewers : DetailZincrby(p)

SpecViewsRace == InitViews /\ [][NextViewsRace]_vars

(***************************************************************************)
(* Image rows deleted while Redis keeps their keys (SpecDeleted).  The     *)
(* admin site registered for Image deletes rows; no code of the project    *)
(* removes an image's counter or its member of image_ranking.              *)
(***************************************************************************)
\* the admin's delete view for one Image row: the row and its users_like
\* rows go, Redis is not touched
DeleteImage(id) ==
    /\ id \in images
    /\ images' = images \ {id}
    /\ users_like' = [users_like EXCEPT ![id] = {}]
    /\ rendered' = [view |-> "deleted", image |-> id]
    /\ UNCHANGED <<views, ranking, returns, vreq, recvars,
                   down, total_likes, rowlock, lreq, following>>

\* the image rows deleted so far
Deleted == DOMAIN views \ images

NextDeleted ==
    \/ /\ Cardinality(Deleted) < MaxDeleted
       /\ \E id \in images : DeleteImage(id)
    \/ \E order \in FetchOrders : ImageRanking(order)

SpecDeleted == InitRanking /\ [][NextDeleted]_vars

(***************************************************************************)
(* image_detail and image_ranking when Redis may be unreachable            *)
(* (SpecOutage).  Neither view catches the exception redis-py raises, so   *)
(* it leaves the view and the request ends in an error response.           *)
(***************************************************************************)
\* a view that catches the exception and renders its page without the data
Swallowed(view) ==
    [view |-> view, total_views |-> 0, most_viewed |-> <<>>]

\* redis.exceptions.ConnectionError leaves the view: the server error page
Raised(view) == [view |-> "error", from |-> view]

\* line 73 when Redis may not answer; up: Redis is reachable for this command
IncrOrRaise(p, up) ==
    /\ vreq[p].pc = "incr"
    /\ down' = ~up
    /\ IF up
       THEN /\ views' = [views EXCEPT ![vreq[p].image] = RedisIncr(@)]
            /\ vreq' = [vreq EXCEPT ![p].pc = "zincrby",
                                    ![p].total_views = views'[vreq[p].image]]
            /\ UNCHANGED rendered
       ELSE /\ vreq' = [vreq EXCEPT ![p].pc = "error"]
            /\ rendered' = Raised("detail")
            /\ UNCHANGED views
    /\ UNCHANGED <<images, ranking, returns, recvars,
                   users_like, total_likes, rowlock, lreq, following>>

\* an image_detail that takes its INCR back when ZINCRBY fails
ZincrbyOrUndo(p, up) ==
    /\ vreq[p].pc = "zincrby"
    /\ down' = ~up
    /\ IF up
       THEN /\ ranking' = ZIncrBy(ranking, 1, Str(vreq[p].image))
            /\ DetailRendered(p)
            /\ UNCHANGED views
       ELSE /\ vreq' = [vreq EXCEPT ![p].pc = "error"]
            /\ rendered' = Raised("detail")
            /\ views' = [views EXCEPT ![vreq[p].image] = @ - 1]
            /\ UNCHANGED <<ranking, returns>>
    /\ UNCHANGED <<images, recvars,
                   users_like, total_likes, rowlock, lreq, following>>

\* line 75, then lines 76-84, when Redis may not answer
ZincrbyOrRaise(p, up) ==
    /\ vreq[p].pc = "zincrby"
    /\ down' = ~up
    /\ IF up
       THEN /\ ranking' = ZIncrBy(ranking, 1, Str(vreq[p].image))
            /\ DetailRendered(p)
       ELSE /\ vreq' = [vreq EXCEPT ![p].pc = "error"]
            /\ rendered' = Raised("detail")
            /\ UNCHANGED <<ranking, returns>>
    /\ UNCHANGED <<images, views, recvars,
                   users_like, total_likes, rowlock, lreq, following>>

\* one whole image_ranking request when Redis may not answer line 179
RankingOrRaise(order, up) ==
    LET image_ranking_ids == RankingIds(ranking)
        fetched == Fetch(image_ranking_ids, order)
    IN  /\ down' = ~up
        /\ rendered' = IF up
                       THEN [view |-> "ranking",
                             most_viewed |-> MostViewed(fetched, image_ranking_ids)]
                       ELSE Raised("ranking")
        /\ UNCHANGED <<images, views, ranking, returns, vreq, recvars,
                       users_like, total_likes, rowlock, lreq, following>>

\* the requests of SpecOutage
OutageViewers == 1..NumOutageViewers

NextOutage ==
    \/ \E p \in OutageViewers, id \in DOMAIN views \cup {0}, found \in BOOLEAN :
           DetailGet(p, id, found)
    \/ \E p \in OutageViewers, up \in BOOLEAN : IncrOrRaise(p, up)
    \/ \E p \in OutageViewers, up \in BOOLEAN : ZincrbyOrRaise(p, up)
    \/ \E order \in FetchOrders, up \in BOOLEAN : RankingOrRaise(order, up)

SpecOutage == InitViews /\ [][NextOutage]_vars

(***************************************************************************)
(* account.views.user_follow, user_unfollow and dashboard (SpecFeed).      *)
(***************************************************************************)
\* the rows of the User table
FeedUsers == {1, 2, 3}

\* User.username of each row
Usernames == [u1 |-> 1, u2 |-> 2, u3 |-> 3]

\* request.POST.get('username'): absent, of no user, or of a user
PostedUsernames == {"", "nobody"} \cup DOMAIN Usernames

\* user_follow without the comparison of line 191
AnyUser(me, user) == TRUE

\* request.user != user
NotSelf(me, user) == me # user

\* user.followers.add(request.user): the pair is a set element, so adding
\* a relation that exists changes nothing
FollowersAdd(user, me) == following \cup {<<me, user>>}

\* user.followers.remove(request.user)
FollowersRemove(user, me) == following \ {<<me, user>>}

\* the response of user_follow / user_unfollow to request.user = me
FollowResponse(view, me, username) ==
    [view |-> view, user |-> me, username |-> username,
     status |-> IF username = "" \/ username \in DOMAIN Usernames
                THEN 200 ELSE 404]

\* one whole user_follow request
UserFollow(me, username) ==
    /\ following' = IF username \in DOMAIN Usernames /\ NotSelf(me, Usernames[username])
                    THEN FollowersAdd(Usernames[username], me)
                    ELSE following
    /\ rendered' = FollowResponse("follow", me, username)
    /\ UNCHANGED <<images, views, ranking, returns, vreq, recvars,
                   down, users_like, total_likes, rowlock, lreq>>

\* one whole user_unfollow request
UserUnfollow(me, username) ==
    /\ following' = IF username \in DOMAIN Usernames /\ NotSelf(me, Usernames[username])
                    THEN FollowersRemove(Usernames[username], me)
                    ELSE following
    /\ rendered' = FollowResponse("unfollow", me, username)
    /\ UNCHANGED <<images, views, ranking, returns, vreq, recvars,
                   down, users_like, total_likes, rowlock, lreq>>

\* Action.objects.all(): the primary keys of the table
AllActions == DOMAIN actions

\* a dashboard that keeps the viewer's own actions
ExcludeNobody(pks, me) == pks

\* .exclude(user=request.user)
Exclude(pks, me) == {k \in pks : actions[k].user # me}

\* request.user.following.values_list('id', flat=True)
FollowingIds(me) == {user \in FeedUsers : <<me, user>> \in following}

\* .filter(user_id__in=following_ids)
FilterUserIn(pks, ids) == {k \in pks : actions[k].user \in ids}

\* how the database orders rows of equal created: Meta.ordering names no
\* second column
TieOrders == {"lower pk first", "higher pk first"}

\* row a comes before row b under ordering = ['-created']
Before(a, b, ties) ==
    \/ actions[a].created > actions[b].created
    \/ /\ actions[a].created = actions[b].created
       /\ IF ties = "lower pk first" THEN a < b ELSE a > b

\* the rows of pks in the order of Meta.ordering
RECURSIVE OrderBy(_, _)
OrderBy(pks, ties) ==
    IF pks = {} THEN <<>>
    ELSE LET first == CHOOSE a \in pks : \A b \in pks \ {a} : Before(a, b, ties)
         IN  <<first>> \o OrderBy(pks \ {first}, ties)

\* one whole dashboard request of request.user = me
Dashboard(me, ties) ==
    LET excluded == Exclude(AllActions, me)
        following_ids == FollowingIds(me)
        filtered == IF following_ids # {}
                    THEN FilterUserIn(excluded, following_ids)
                    ELSE excluded
    IN  /\ rendered' = [view |-> "dashboard", user |-> me,
                        actions |-> Take(OrderBy(filtered, ties), PageSize)]
        /\ UNCHANGED <<images, views, ranking, returns, vreq, recvars, socialvars>>

\* the Action tables SpecFeed starts from, each the outcome of earlier
\* create_action calls 100 seconds apart or, in the third, two by two in
\* the same second: more rows than a page, by three authors, nearly all by
\* one author, with equal created values; and the empty table
FeedTables ==
    LET author(i) == IF i % 5 = 0 THEN 1 ELSE IF i % 2 = 0 THEN 2 ELSE 3
        image == [ct |-> "image", id |-> 1]
        n == PageSize + 5
    IN  {[i \in 1..n |-> Action(author(i), "likes", image, 100 * i)],
         [i \in 1..n |-> Action(IF i % 7 = 0 THEN 3 ELSE 2, "likes", image, 100 * i)],
         [i \in 1..n |-> Action(author(i), "likes", image, 100 * ((i + 1) \div 2))],
         <<>>}

InitFeed ==
    \E table \in FeedTables :
        /\ actions = table
        /\ now = IF table = <<>> THEN 0 ELSE table[Len(table)].created
        /\ calls = <<>>
        /\ req = [p \in Procs |-> Idle]
        /\ InitImages
        /\ InitSocial

NextFeed ==
    \/ \E me \in FeedUsers, username \in PostedUsernames : UserFollow(me, username)
    \/ \E me \in FeedUsers, username \in PostedUsernames : UserUnfollow(me, username)
    \/ \E me \in FeedUsers, ties \in TieOrders : Dashboard(me, ties)

SpecFeed == InitFeed /\ [][NextFeed]_vars

(***************************************************************************)
(* images.views.image_like and the m2m_changed receiver of                 *)
(* images.signals, run by concurrent requests (SpecLikes).                 *)
(*                                                                         *)
(* users_like.add and users_like.remove run in one database transaction,   *)
(* and send m2m_changed before and after they change the table; the        *)
(* receiver is connected for every action of the signal, so it counts and  *)
(* saves twice in that transaction.  A request's steps are the statements  *)
(* it sends to the database: SELECT COUNT, UPDATE of the Image row, INSERT *)
(* or DELETE of the users_like row, SELECT COUNT, UPDATE, COMMIT.  The     *)
(* UPDATE takes the lock of the Image row until the transaction ends; a    *)
(* statement reads what is committed when it runs, and the transaction's   *)
(* own changes.                                                            *)
(***************************************************************************)
Likers == 1..NumLikers

\* request.POST.get('id'): 0 stands for an id that no Image row has
PostedIds == {0, 1, 2}

\* request.POST.get('action')
PostedActions == {"like", "unlike"}

\* lines 98-103: image = Image.objects.get(id=image_id); without a row the
\* view answers {'status': 'error'}. Requests are numbered in the order
\* they start.
LikeGet(p, user, id, action) ==
    /\ lreq[p].pc = "idle"
    /\ \A q \in Likers : q < p => lreq[q].pc # "idle"
    /\ lreq' = [lreq EXCEPT ![p] =
           [pc |-> IF id \in images THEN "pre_count" ELSE "error",
            user |-> user, image |-> id, action |-> action,
            changed |-> FALSE, counted |-> 0, first |-> 0, total_likes |-> 0]]
    /\ UNCHANGED <<recvars, viewvars, down, users_like, total_likes, rowlock, following>>

\* the users_like rows of the request's image that its transaction sees:
\* the committed rows, with its own INSERT or DELETE once it has made it
UsersLike(p) ==
    LET committed == users_like[lreq[p].image]
    IN  IF ~lreq[p].changed THEN committed
        ELSE IF lreq[p].action = "like" THEN committed \cup {lreq[p].user}
        ELSE committed \ {lreq[p].user}

\* signals.py line 24: instance.users_like.count(), sent before
\* (pre_add, pre_remove) and after (post_add, post_remove) the change
LikeCount(p) ==
    /\ lreq[p].pc \in {"pre_count", "post_count"}
    /\ lreq' = [lreq EXCEPT
           ![p].counted = Cardinality(UsersLike(p)),
           ![p].first = IF lreq[p].pc = "pre_count"
                        THEN Cardinality(UsersLike(p)) ELSE @,
           ![p].pc = IF lreq[p].pc = "pre_count" THEN "pre_save" ELSE "post_save"]
    /\ UNCHANGED <<recvars, viewvars, down, users_like, total_likes, rowlock, following>>

\* an UPDATE that does not wait for the lock of the row
LockNotNeeded(p) == TRUE

\* the Image row of the request is not locked by another transaction
LockFree(p) == rowlock[lreq[p].image] \in {0, p}

\* signals.py line 25: instance.save(), an UPDATE of the Image row that
\* waits for the row's lock, takes it, and writes total_likes; the new value
\* is the transaction's own until it commits
LikeSave(p) ==
    /\ lreq[p].pc \in {"pre_save", "post_save"}
    /\ LockFree(p)
    /\ rowlock' = [rowlock EXCEPT ![lreq[p].image] = p]
    /\ lreq' = [lreq EXCEPT
           ![p].total_likes = lreq[p].counted,
           ![p].pc = IF lreq[p].pc = "pre_save" THEN "change" ELSE "commit"]
    /\ UNCHANGED <<recvars, viewvars, down, users_like, total_likes, following>>

\* the database gives up the wait for the row's lock: the transaction is
\* rolled back and the request ends in a server error
LikeLockTimeout(p) ==
    /\ lreq[p].pc = "pre_save"
    /\ ~LockFree(p)
    /\ lreq' = [lreq EXCEPT ![p].pc = "failed"]
    /\ UNCHANGED <<recvars, viewvars, down, users_like, total_likes, rowlock, following>>

\* views.py line 106 / 110: the INSERT of users_like.add(request.user) or
\* the DELETE of users_like.remove(request.user)
LikeChange(p) ==
    /\ lreq[p].pc = "change"
    /\ lreq' = [lreq EXCEPT ![p].changed = TRUE, ![p].pc = "post_count"]
    /\ UNCHANGED <<recvars, viewvars, down, users_like, total_likes, rowlock, following>>

\* the transaction of add / remove commits: its rows and its total_likes
\* become the stored ones and the row's lock is released
LikeCommit(p) ==
    /\ lreq[p].pc = "commit"
    /\ users_like' = [users_like EXCEPT ![lreq[p].image] = UsersLike(p)]
    /\ total_likes' = [total_likes EXCEPT ![lreq[p].image] = lreq[p].total_likes]
    /\ rowlock' = [rowlock EXCEPT ![lreq[p].image] = 0]
    /\ lreq' = [lreq EXCEPT ![p].pc = IF lreq[p].action = "like" THEN "record" ELSE "done"]
    /\ UNCHANGED <<recvars, viewvars, down, following>>

\* views.py line 107: create_action(request.user, 'likes', image), read at
\* clock value t, then the response of line 111
LikeRecord(p, t) ==
    LET target == [ct |-> "image", id |-> lreq[p].image]
        similar == SimilarActions(actions, lreq[p].user, "likes", target, t)
    IN  /\ lreq[p].pc = "record"
        /\ now' = t
        /\ actions' = SaveIfNone(actions, similar,
                                 Action(lreq[p].user, "likes", target, t))
        /\ calls' = Append(calls,
               [user |-> lreq[p].user, verb |-> "likes", target |-> target, at |-> t,
                result |-> Returned(similar), before |-> Len(actions)])
        /\ lreq' = [lreq EXCEPT ![p].pc = "done"]
        /\ UNCHANGED <<req, viewvars, down, users_like, total_likes, rowlock, following>>

NextLikes ==
    \/ \E p \in Likers, user \in Users, id \in PostedIds, action \in PostedActions :
           LikeGet(p, user, id, action)
    \/ \E p \in Likers : LikeCount(p)
    \/ \E p \in Likers : LikeSave(p)
    \/ \E p \in Likers : LikeLockTimeout(p)
    \/ \E p \in Likers : LikeChange(p)
    \/ \E p \in Likers : LikeCommit(p)
    \/ \E p \in Likers, t \in ClockReadings : LikeRecord(p, t)

SpecLikes == InitRecord /\ [][NextLikes]_vars

(***************************************************************************)
(* Every view of the project that writes, side by side (SpecAll):          *)
(* image_detail and image_ranking with Redis outages, image_like with its  *)
(* receiver, create_action as image_create calls it, user_follow and       *)
(* user_unfollow.                                                          *)
(***************************************************************************)
\* the image_like requests that have made their create_action call
Recorded == {p \in Likers : lreq[p].pc = "done" /\ lreq[p].action = "like"}

\* the number of requests started so far: image_detail, image_like, and the
\* create_action calls that no image_like made
Started ==
    Cardinality({p \in OutageViewers : vreq[p].pc # "idle"})
    + Cardinality({p \in Likers : lreq[p].pc # "idle"})
    + Len(calls) - Cardinality(Recorded)

\* the requests of SpecAll come from one user, name the first two images,
\* which exist, and read the clock in the same second as the request before
\* or after the window of create_action has passed
AllUser == 1

AllImages == {1, 2}

AllReadings == {now, now + Window + 1} \cap (0..MaxTime)

\* the username posted in SpecAll: another user's
AllUsernames == {"u2"}

NextAll ==
    \/ /\ Started < MaxStarted
       /\ \E p \in OutageViewers, id \in AllImages : DetailGet(p, id, TRUE)
    \/ \E p \in OutageViewers, up \in BOOLEAN : IncrOrRaise(p, up)
    \/ \E p \in OutageViewers, up \in BOOLEAN : ZincrbyOrRaise(p, up)
    \/ \E up \in BOOLEAN : RankingOrRaise("newest first", up)
    \/ /\ Started < MaxStarted
       /\ \E id \in AllImages, t \in AllReadings :
              CreateAction(AllUser, "bookmarked image", [ct |-> "image", id |-> id], t)
    \/ /\ Started < MaxStarted
       /\ \E p \in Likers, id \in AllImages, action \in PostedActions :
              LikeGet(p, AllUser, id, action)
    \/ \E p \in Likers : LikeCount(p)
    \/ \E p \in Likers : LikeSave(p)
    \/ \E p \in Likers : LikeLockTimeout(p)
    \/ \E p \in Likers : LikeChange(p)
    \/ \E p \in Likers : LikeCommit(p)
    \/ \E p \in Likers, t \in AllReadings : LikeRecord(p, t)
    \/ \E username \in AllUsernames : UserFollow(AllUser, username)
    \/ \E username \in AllUsernames : UserUnfollow(AllUser, username)

SpecAll == InitRecord /\ [][NextAll]_vars

(***************************************************************************)
(* Properties of create_action under non-overlapping calls (SpecRecord).   *)
(***************************************************************************)
\* two calls were made with the same (actor, verb, target)
SameArgs(a, b) == a.user = b.user /\ a.verb = b.verb /\ a.target = b.target

\* the stored row carries the call's full (actor, verb, target) tuple
SameTuple(row, c) ==
    /\ row.user = c.user
    /\ row.verb = c.verb
    /\ row.target_ct = c.target.ct
    /\ row.target_id = c.target.id

\* the number of rows in the table when call i had returned
RowsAfter(i) == calls[i].before + (IF calls[i].result THEN 1 ELSE 0)

\* C1: two consecutive calls with the same (actor, verb, target), at most 60
\* seconds apart, the first made on a table holding no row of that tuple:
\* the results are (true, false) and the table then holds exactly one row of
\* that tuple.
C1_TwiceWithinWindow ==
    \A i \in 1..(Len(calls) - 1) :
        LET a == calls[i]
            b == calls[i + 1]
        IN  (/\ SameArgs(a, b)
             /\ b.at - a.at <= Window
             /\ \A j \in 1..a.before : ~SameTuple(actions[j], a))
            => /\ a.result
               /\ ~b.result
               /\ Cardinality({j \in 1..RowsAfter(i + 1) : SameTuple(actions[j], a)}) = 1

\* C1 for a call that names a target, or made on an empty table
C1_TwiceWithinWindowTargeted ==
    \A i \in 1..(Len(calls) - 1) :
        LET a == calls[i]
            b == calls[i + 1]
        IN  (/\ SameArgs(a, b)
             /\ b.at - a.at <= Window
             /\ a.target # NoTarget \/ a.before = 0
             /\ \A j \in 1..a.before : ~SameTuple(actions[j], a))
            => /\ a.result
               /\ ~b.result
               /\ Cardinality({j \in 1..RowsAfter(i + 1) : SameTuple(actions[j], a)}) = 1

\* C2, as stated: on an empty table, a call and a second call with the same
\* arguments at least 60 seconds later (exactly 60 included) return
\* (true, true) and leave two rows.
C2_AfterWindowInclusive ==
    (/\ Len(calls) >= 2
     /\ SameArgs(calls[1], calls[2])
     /\ calls[2].at - calls[1].at >= Window)
    => /\ calls[1].result
       /\ calls[2].result
       /\ RowsAfter(2) = 2

\* C2, amended: a call that inserts (the first call on an empty table always
\* does), followed more than 60 seconds later by a call with the same
\* arguments: the second call returns true too and both rows are stored, so
\* from an empty table the results are (true, true) and the table holds two
\* rows.
C2_AfterWindow ==
    /\ Len(calls) >= 1 => calls[1].result
    /\ \A i \in 1..(Len(calls) - 1) :
           LET a == calls[i]
               b == calls[i + 1]
           IN  (SameArgs(a, b) /\ b.at - a.at > Window /\ a.result)
               => /\ b.result
                  /\ RowsAfter(i + 1) = a.before + 2
                  /\ actions[a.before + 1] = Action(a.user, a.verb, a.target, a.at)
                  /\ actions[a.before + 2] = Action(b.user, b.verb, b.target, b.at)

\* C2 witness: the first two calls have the same arguments, are 61 seconds
\* apart, both returned true and two rows are stored
C2_Witness ==
    /\ Len(calls) >= 2
    /\ SameArgs(calls[1], calls[2])
    /\ calls[2].at - calls[1].at = Window + 1
    /\ calls[1].result /\ calls[2].result
    /\ Len(actions) = 2

\* C3: the dedup key is the full (actor, verb, target) tuple: two consecutive
\* calls of one actor inside the window that differ in verb or in target
\* (a target against no target included), on a table with no row of either
\* tuple, both insert and both return true.
C3_DedupKeyIsFullTuple ==
    \A i \in 1..(Len(calls) - 1) :
        LET a == calls[i]
            b == calls[i + 1]
        IN  (/\ a.user = b.user
             /\ a.verb # b.verb \/ a.target # b.target
             /\ b.at - a.at <= Window
             /\ \A j \in 1..a.before :
                    ~SameTuple(actions[j], a) /\ ~SameTuple(actions[j], b))
            => /\ a.result
               /\ b.result
               /\ RowsAfter(i + 1) = a.before + 2

\* C4: no two stored rows with the same (actor, verb, target) have created
\* stamps within 60 seconds of each other.
C4_OnePerWindow ==
    \A i, j \in DOMAIN actions :
        (/\ i < j
         /\ actions[i].user = actions[j].user
         /\ actions[i].verb = actions[j].verb
         /\ actions[i].target_ct = actions[j].target_ct
         /\ actions[i].target_id = actions[j].target_id)
        => actions[j].created - actions[i].created > Window

\* C4 witness: two rows of one tuple are stored, and a call of that tuple
\* was suppressed
C4_Witness ==
    /\ \E i, j \in DOMAIN actions :
           /\ i < j
           /\ actions[i].user = actions[j].user
           /\ actions[i].verb = actions[j].verb
           /\ actions[i].target_ct = actions[j].target_ct
           /\ actions[i].target_id = actions[j].target_id
    /\ \E k \in DOMAIN calls : ~calls[k].result

\* C5: the window is anchored to the last insert: after a call that inserted
\* at time t, followed only by suppressed calls, a call with the same
\* arguments later than t + 60 inserts and returns true.
C5_AnchoredToLastInsert ==
    \A i, j \in DOMAIN calls :
        (/\ i < j
         /\ SameArgs(calls[i], calls[j])
         /\ calls[i].result
         /\ calls[j].at > calls[i].at + Window
         /\ \A k \in (i + 1)..(j - 1) : ~calls[k].result)
        => /\ calls[j].result
           /\ RowsAfter(j) = calls[i].before + 2

\* C5 witness: t=0 true, t=30 false, t=61 true with the same arguments,
\* stored count 2
C5_Witness ==
    /\ Len(calls) = 3
    /\ SameArgs(calls[1], calls[2]) /\ SameArgs(calls[2], calls[3])
    /\ calls[1].at = 0 /\ calls[2].at = 30 /\ calls[3].at = 61
    /\ calls[1].result /\ ~calls[2].result /\ calls[3].result
    /\ Len(actions) = 2

\* C7: a call returns true exactly when it appended one row (created = call
\* time, the given actor, verb and target) and false exactly when it left
\* the table unchanged; the table changes in no other way.
C7_FrameEffect ==
    [][/\ calls' # calls =>
            LET c == calls'[Len(calls')]
            IN  /\ c.result <=> actions' = Append(actions, Action(c.user, c.verb, c.target, c.at))
                /\ ~c.result <=> actions' = actions
       /\ actions' # actions => calls' # calls]_vars

\* C7 witness: one call has returned true and another false
C7_Witness ==
    \E i, j \in DOMAIN calls :
        /\ calls[i].result /\ Len(actions) > calls[i].before
        /\ ~calls[j].result

(***************************************************************************)
(* Properties of create_action under overlapping calls (SpecRace).         *)
(***************************************************************************)
\* requests p and q both evaluated their query before the other saved
BothQueriedFirst(p, q) ==
    /\ req[p].pc # "idle" /\ req[q].pc # "idle"
    /\ req[q].row = 0 \/ req[q].row > req[p].seen
    /\ req[p].row = 0 \/ req[p].row > req[q].seen

\* C6: the check-then-insert is not atomic: two calls with the same
\* (actor, verb, target) that both ran their query, finding nothing, before
\* either saved both insert and both return true.
C6_RaceInsertsTwice ==
    \A p, q \in Procs :
        (/\ p # q
         /\ req[p].pc = "done" /\ req[q].pc = "done"
         /\ SameArgs(req[p], req[q])
         /\ req[p].similar = {} /\ req[q].similar = {}
         /\ BothQueriedFirst(p, q))
        => /\ req[p].result /\ req[q].result
           /\ req[p].row \in DOMAIN actions /\ req[q].row \in DOMAIN actions
           /\ req[p].row # req[q].row
           /\ actions[req[p].row] =
                  Action(req[p].user, req[p].verb, req[p].target, actions[req[p].row].created)
           /\ actions[req[q].row] =
                  Action(req[q].user, req[q].verb, req[q].target, actions[req[q].row].created)

\* C6 witness: two finished calls with the same arguments both returned
\* true, and their two rows have created stamps inside one 60-second window
C6_Witness ==
    \E p, q \in Procs :
        /\ p # q
        /\ req[p].pc = "done" /\ req[q].pc = "done"
        /\ SameArgs(req[p], req[q])
        /\ req[p].result /\ req[q].result
        /\ req[p].row \in DOMAIN actions /\ req[q].row \in DOMAIN actions
        /\ BothQueriedFirst(p, q)
        /\ actions[req[q].row].created - actions[req[p].row].created \in 0..Window

(***************************************************************************)
(* Properties of image_detail and image_ranking.                           *)
(***************************************************************************)
\* ZSCORE image_ranking <id>, 0 for a member that is not in the set
Score(id) == IF Str(id) \in DOMAIN ranking THEN ranking[Str(id)] ELSE 0

\* C8: for an image with no prior views, k image_detail requests run one
\* after the other return 1, 2, ..., k in order, and afterwards its counter
\* is k and its ranking score is k.
C8_SequentialViews ==
    \A e \in DOMAIN returns :
        LET k == Len(returns[e])
        IN  /\ returns[e] = [i \in 1..k |-> i]
            /\ views[e] = k
            /\ Score(e) = k

\* C8 witness: one image has been viewed three times and another one once
C8_Witness ==
    \E e, f \in DOMAIN returns :
        /\ e # f
        /\ returns[e] = <<1, 2, 3>>
        /\ returns[f] = <<1>>
        /\ rendered.view = "detail"

\* the requests that got image e from get_object_or_404
ViewersOf(e) == {p \in Viewers : vreq[p].pc \in {"incr", "zincrby", "done"} /\ vreq[p].image = e}

\* C9: once all n concurrent image_detail requests for an image have
\* completed, in whatever interleaving, its counter is n, its ranking score
\* is n and the n returned values are the distinct values 1..n.
C9_NoLostUpdates ==
    \A e \in images :
        LET n == Cardinality(ViewersOf(e))
        IN  (\A p \in ViewersOf(e) : vreq[p].pc = "done")
            => /\ views[e] = n
               /\ Score(e) = n
               /\ {vreq[p].total_views : p \in ViewersOf(e)} = 1..n
               /\ Len(returns[e]) = n

\* C9 witness: every request viewed the same image, all have completed, and
\* the request that incremented first finished last
C9_Witness ==
    \E e \in images :
        /\ ViewersOf(e) = Viewers
        /\ \A p \in Viewers : vreq[p].pc = "done"
        /\ views[e] = NumViewers
        /\ returns[e][Len(returns[e])] = 1

\* the place of image id in the store's descending ranking
Place(id) ==
    LET top == ZRevRange(ranking)
    IN  CHOOSE i \in 1..Len(top) : top[i] = Str(id)

\* C10: image_ranking returns at most 10 images, ordered by descending
\* score, each in the same relative order as its identifier in the store's
\* descending ranking, whatever order the database returned the rows in.
C10_RankOrder ==
    rendered.view = "ranking" =>
        LET most_viewed == rendered.most_viewed
        IN  /\ Len(most_viewed) <= TopN
            /\ \A i, j \in 1..Len(most_viewed) :
                   i < j => /\ Score(most_viewed[i]) >= Score(most_viewed[j])
                            /\ Place(most_viewed[i]) < Place(most_viewed[j])

\* C10 witness: the sorted set holds more than 10 members, 10 images were
\* returned, two of them tie, and the result is in neither id order
C10_Witness ==
    /\ rendered.view = "ranking"
    /\ Cardinality(DOMAIN ranking) > TopN
    /\ Len(rendered.most_viewed) = TopN
    /\ \E i \in 1..(TopN - 1) :
           Score(rendered.most_viewed[i]) = Score(rendered.most_viewed[i + 1])
    /\ \E i \in 1..(TopN - 1) : rendered.most_viewed[i] < rendered.most_viewed[i + 1]
    /\ \E i \in 1..(TopN - 1) : rendered.most_viewed[i] > rendered.most_viewed[i + 1]

(***************************************************************************)
(* Properties of image_ranking when Image rows were deleted (SpecDeleted). *)
(***************************************************************************)
\* the ids of seq that still have an Image row, in the order of seq
Surviving(seq) == SelectSeq(seq, LAMBDA x : x \in images)

\* C11: a ranking that image_ranking rendered holds exactly the images that
\* still exist among the top n ids of the ranking, in rank order: a deleted
\* image among them is left out, and its place is not given to a
\* lower-ranked image, so the list is shorter by the number of deleted ids.
C11_DeletedOmitted ==
    rendered.view = "ranking" =>
        LET top == RankingIds(ranking)
            gone == {i \in 1..Len(top) : top[i] \notin images}
        IN  /\ rendered.most_viewed = Surviving(top)
            /\ Len(rendered.most_viewed) = Len(top) - Cardinality(gone)

\* one of the top n ids was deleted while a lower-ranked image still exists,
\* and the rendered list has n - 1 entries
C11_Witness ==
    /\ rendered.view = "ranking"
    /\ Cardinality({i \in 1..TopN : RankingIds(ranking)[i] \notin images}) = 1
    /\ \E id \in images : \A i \in 1..TopN : RankingIds(ranking)[i] # id
    /\ Len(rendered.most_viewed) = TopN - 1

(***************************************************************************)
(* Properties of the views when Redis may be unreachable (SpecOutage).     *)
(***************************************************************************)
\* request p sends a Redis command in its next step
AtCommand(p) == vreq[p].pc \in {"incr", "zincrby"}

\* C12: when Redis is unreachable for a command of image_detail or
\* image_ranking, the request ends in an error response: it does not render
\* its page (no view count of zero, no empty ranking), the request never
\* completes normally afterwards, and the step that met the outage changes
\* no counter, score or table.
C12_OutagePropagates ==
    [][/\ down' =>
            /\ rendered'.view = "error"
            /\ UNCHANGED <<views, ranking, returns, images, actions,
                           users_like, total_likes, following>>
            /\ \A p \in OutageViewers :
                   AtCommand(p) /\ vreq'[p] # vreq[p] => vreq'[p].pc = "error"
       /\ rendered'.view \in {"detail", "ranking"} /\ rendered' # rendered => ~down'
       /\ rendered'.view = "detail" => rendered'.total_views >= 1
       /\ \A p \in OutageViewers : vreq[p].pc = "error" => vreq'[p] = vreq[p]
      ]_vars

\* an image_detail request has ended in an error, and the last request, an
\* image_ranking that found Redis unreachable, ended in an error as well
C12_Witness ==
    /\ down
    /\ rendered = Raised("ranking")
    /\ \E p \in OutageViewers : vreq[p].pc = "error"

\* the image_detail requests for image e whose INCR was applied and whose
\* ZINCRBY was not: between the two commands, or ended by an outage at the
\* second
Lagging(e) ==
    {p \in OutageViewers :
        /\ vreq[p].pc \in {"zincrby", "error"}
        /\ vreq[p].image = e
        /\ vreq[p].total_views > 0}

\* C16: in every state and for every image, the ranking score is at most the
\* view counter, and the counter exceeds the score by the number of
\* image_detail requests that have done INCR and not ZINCRBY (in flight, or
\* ended by an outage between the two); with no such request they are equal.
C16_ScoreLagsCounter ==
    \A e \in DOMAIN views :
        /\ Score(e) <= views[e]
        /\ views[e] - Score(e) = Cardinality(Lagging(e))

\* one request for an image was ended by an outage after its INCR, another
\* is between its two commands: the counter is two ahead of the score
C16_Witness ==
    \E e \in DOMAIN views :
        /\ views[e] - Score(e) = 2
        /\ \E p, q \in Lagging(e) : vreq[p].pc = "error" /\ vreq[q].pc = "zincrby"

(***************************************************************************)
(* Properties of the follow graph and the dashboard (SpecFeed).            *)
(***************************************************************************)
\* the users that viewer follows, read off the Contact table
FollowedBy(viewer) == {u \in FeedUsers : <<viewer, u>> \in following}

\* the rows the dashboard of viewer may show
Eligible(viewer) ==
    {k \in DOMAIN actions :
        IF FollowedBy(viewer) # {}
        THEN actions[k].user \in FollowedBy(viewer)
        ELSE actions[k].user # viewer}

\* shown is a newest-first page of the rows of S: no row twice, only rows of
\* S, as many as S has up to the page size, created never rising, and no row
\* left out that is newer than a row shown
NewestPage(shown, S) ==
    /\ \A i \in 1..Len(shown) : shown[i] \in S
    /\ \A i, j \in 1..Len(shown) : i < j =>
           /\ shown[i] # shown[j]
           /\ actions[shown[i]].created >= actions[shown[j]].created
    /\ Len(shown) = IF Cardinality(S) < PageSize THEN Cardinality(S) ELSE PageSize
    /\ \A k \in S : \A i \in 1..Len(shown) :
           (\A j \in 1..Len(shown) : shown[j] # k) =>
               actions[k].created <= actions[shown[i]].created

\* the dashboard rendered last is right for the tables as they are
FeedShown ==
    rendered.view = "dashboard" =>
        NewestPage(rendered.actions, Eligible(rendered.user))

\* C13: the dashboard of a viewer who follows somebody shows only actions of
\* followed users, that of a viewer who follows nobody shows every action
\* but the viewer's own; either way newest first and cut to the 10 newest;
\* and a dashboard request changes no table and no Redis key.
C13_Dashboard ==
    [][rendered'.view = "dashboard" =>
           /\ FeedShown'
           /\ UNCHANGED <<actions, following, images, users_like, total_likes,
                          views, ranking>>]_vars

\* a viewer who follows one user sees a full page of that user's actions
\* while more are stored, and actions of others are stored too
C13_Witness ==
    /\ rendered.view = "dashboard"
    /\ Cardinality(FollowedBy(rendered.user)) = 1
    /\ Cardinality(Eligible(rendered.user)) > PageSize
    /\ Len(rendered.actions) = PageSize
    /\ \E k \in DOMAIN actions : actions[k].user \notin FollowedBy(rendered.user)

\* C17: no user follows themselves; a user_follow request that names the
\* requesting user leaves the follow graph as it was, and one that names
\* another user adds at most that one relation and removes none.
C17_NoSelfFollow ==
    [][/\ \A u \in FeedUsers : <<u, u>> \notin following'
       /\ rendered'.view = "follow" =>
              LET me == rendered'.user
                  named == rendered'.username
              IN  /\ named \in DOMAIN Usernames /\ Usernames[named] = me
                        => following' = following
                  /\ following \subseteq following'
                  /\ named \in DOMAIN Usernames
                        => following' \subseteq following \cup {<<me, Usernames[named]>>}
                  /\ named \notin DOMAIN Usernames => following' = following
      ]_vars

\* a user who follows somebody has just asked to follow themselves
C17_Witness ==
    /\ rendered.view = "follow"
    /\ rendered.username \in DOMAIN Usernames
    /\ Usernames[rendered.username] = rendered.user
    /\ FollowedBy(rendered.user) # {}

(***************************************************************************)
(* Properties of image_like under concurrent requests (SpecLikes).         *)
(***************************************************************************)
\* no image_like request is under way
LikesQuiet == \A p \in Likers : lreq[p].pc \in {"idle", "done", "error", "failed"}

\* C15: once every like and unlike request has completed, in whatever
\* interleaving of their database statements and from whichever users, each
\* image's stored total_likes is the number of users in its users_like set.
C15_LikesCounted ==
    LikesQuiet => \A i \in images : total_likes[i] = Cardinality(users_like[i])

\* two users liked the same image in overlapping requests (each counted no
\* like before the other had committed), both requests are complete and the
\* image has two likes
C15_Witness ==
    /\ LikesQuiet
    /\ \E p, q \in Likers :
           /\ p # q
           /\ lreq[p].pc = "done" /\ lreq[q].pc = "done"
           /\ lreq[p].image = lreq[q].image
           /\ lreq[p].user # lreq[q].user
           /\ lreq[p].action = "like" /\ lreq[q].action = "like"
           /\ lreq[p].first = 0 /\ lreq[q].first = 0
           /\ Cardinality(users_like[lreq[p].image]) = 2

(***************************************************************************)
(* Properties of the Redis counters under every writing view (SpecAll).    *)
(***************************************************************************)
\* request p of image_detail takes a step for image e
DetailStep(p, e) ==
    /\ vreq[p].pc \in {"incr", "zincrby"}
    /\ vreq[p].image = e
    /\ vreq'[p] # vreq[p]

\* C14: in every step of image_detail, image_ranking, create_action,
\* image_like, user_follow and user_unfollow, no view counter and no ranking
\* score decreases, and no key or member is removed; a counter or a score
\* changes only in a step of image_detail for that image, by exactly 1 (the
\* counter at INCR, the score at ZINCRBY), and then no other image's counter
\* or score changes.
C14_CountersOnlyGrow ==
    [][/\ DOMAIN views \subseteq DOMAIN views'
       /\ DOMAIN ranking \subseteq DOMAIN ranking'
       /\ \A e \in DOMAIN views :
              /\ views'[e] \in {views[e], views[e] + 1}
              /\ Score(e)' \in {Score(e), Score(e) + 1}
              /\ views'[e] # views[e] \/ Score(e)' # Score(e) =>
                     /\ \E p \in OutageViewers : DetailStep(p, e)
                     /\ \A f \in DOMAIN views \ {e} :
                            views'[f] = views[f] /\ Score(f)' = Score(f)
              /\ \A p \in OutageViewers :
                     DetailStep(p, e) /\ vreq'[p].pc = "zincrby" =>
                         views'[e] = views[e] + 1 /\ Score(e)' = Score(e)
              /\ \A p \in OutageViewers :
                     DetailStep(p, e) /\ vreq'[p].pc = "done" =>
                         views'[e] = views[e] /\ Score(e)' = Score(e) + 1
      ]_vars

\* an image has been viewed once and liked, an Action row is stored and the
\* user follows somebody: the counter and the score of the image are 1
C14_Witness ==
    \E e \in AllImages :
        /\ views[e] = 1 /\ Score(e) = 1
        /\ total_likes[e] = 1
        /\ actions # <<>>
        /\ following # {}

====
